---------------------------- MODULE Spec2Model ----------------------------
(***************************************************************************)
(* A model of ysa-signal's presentation layer (src/ysa_signal.py) and of   *)
(* the package's import-time update check (src/__init__.py).               *)
(*                                                                         *)
(* Text is modelled as a sequence of one-character strings, so that        *)
(* formatting, lower-casing, stripping, splitting and integer parsing are  *)
(* computed character by character as Python computes them.                *)
(* Python's None is the empty tuple; a channel coordinate is <<row, col>>. *)
(***************************************************************************)
EXTENDS Integers, Sequences, FiniteSets, TLC

\* ------------------------------------------------------------------ bounds

\* Largest number of active channels of a recording.
MaxActive == 3
\* Longest text typed into the search box.
MaxQueryLen == 2
\* Largest row and column of the grid the display round trip is checked on.
MaxCoordinate == 12

\* ------------------------------------------------------------- input sets

\* Electrode coordinates that recordings draw their active channels from:
\* the three of the spec's scenario and one with a two-digit row, whose key
\* "103" holds "13" only as a non-contiguous subsequence and whose text
\* sorts before "2" while its number sorts after.
Coords == {<<1, 2>>, <<1, 3>>, <<2, 1>>, <<10, 3>>}

\* Characters the user can type into the search box.
QueryChars == {"1", "3", "A"}

None == <<>>

\* --------------------------------------------------------- text primitives

\* str(d) for one decimal digit d.
DigitChar(d) ==
    CASE d = 0 -> "0" [] d = 1 -> "1" [] d = 2 -> "2" [] d = 3 -> "3"
      [] d = 4 -> "4" [] d = 5 -> "5" [] d = 6 -> "6" [] d = 7 -> "7"
      [] d = 8 -> "8" [] d = 9 -> "9"

\* f"{n}" for a non-negative int n: its decimal digits, most significant first.
RECURSIVE Digits(_)
Digits(n) ==
    IF n < 10 THEN <<DigitChar(n)>>
    ELSE Digits(n \div 10) \o <<DigitChar(n % 10)>>

\* channel_str = f"({row}, {col})"
channel_str(row, col) ==
    <<"(">> \o Digits(row) \o <<",", " ">> \o Digits(col) \o <<")">>

\* search_str = f"{row}{col}"
search_str(row, col) == Digits(row) \o Digits(col)

\* str.lower() on one character of the search alphabet.
LowerChar(c) == CASE c = "A" -> "a" [] OTHER -> c

\* str.lower()
lower(s) == [i \in 1..Len(s) |-> LowerChar(s[i])]

\* The loop of fuzzy_match: pattern_idx after scanning text[i..].
RECURSIVE fuzzy_scan(_, _, _, _)
fuzzy_scan(pattern, text, i, pattern_idx) ==
    IF i > Len(text) THEN pattern_idx
    ELSE fuzzy_scan(pattern, text, i + 1,
                    IF pattern_idx < Len(pattern) /\ text[i] = pattern[pattern_idx + 1]
                    THEN pattern_idx + 1 ELSE pattern_idx)

\* A matcher that demands the pattern as a contiguous run of the text.
fuzzy_match_contiguous(pattern, text) ==
    \E k \in 0..(Len(text) - Len(pattern)) :
        \A j \in 1..Len(pattern) : text[k + j] = pattern[j]

\* fuzzy_match(pattern, text)
fuzzy_match(pattern, text) ==
    fuzzy_scan(pattern, text, 1, 0) = Len(pattern)


\* ------------------------------------------------------------- recordings

\* Tuple order of Python: (row, col) < (row2, col2).
TupleLess(a, b) == a[1] < b[1] \/ (a[1] = b[1] /\ a[2] < b[2])

\* sorted(active_channels): ascending by (row, col).
RECURSIVE sorted(_)
sorted(S) ==
    IF S = {} THEN <<>>
    ELSE LET m == CHOOSE x \in S : \A y \in S : x = y \/ TupleLess(x, y)
         IN  <<m>> \o sorted(S \ {m})

\* The sets of active channels a recording may have.
ActiveSets == {a \in SUBSET Coords : Cardinality(a) <= MaxActive}

\* The shared time base of the recordings of the model.
TimeVector == <<0, 1, 2>>

\* One channel's record as get_channel_data returns it: the signal and the
\* three event-interval lists. Channels differ in their samples, in the
\* length of their signal (full or partial) and in the events they carry.
ChannelRecord(c) ==
    [signal         |-> IF c[1] = 1 THEN <<c[1], c[2]>> ELSE <<c[1], c[2], c[1] + c[2]>>,
     SzTimes        |-> IF c[2] > 1 THEN <<<<0, 1>>, <<1, 2>>>> ELSE <<>>,
     SETimes        |-> IF c[2] > 2 THEN <<<<1, 2>>>> ELSE <<>>,
     DischargeTimes |-> IF c[1] > 1 THEN <<<<0, 2>>>> ELSE <<>>]

\* A processed recording as process_and_store / load_processed_data return it.
Recording(active) ==
    [sampling_rate    |-> 1000,
     recording_length |-> 2,
     time_vector      |-> TimeVector,
     active_channels  |-> active,
     channels         |-> [c \in active |-> ChannelRecord(c)]]

\* The recordings a processed file may hold.
Recordings == {Recording(a) : a \in ActiveSets}

\* get_channel_data(data, row, col): the channel's record, or None when the
\* coordinate is not an active channel.
get_channel_data(data, row, col) ==
    IF <<row, col>> \in data.active_channels
    THEN <<data.channels[<<row, col>>]>>
    ELSE None


\* ------------------------------------------------- parsing a listbox entry

Whitespace == {" "}

DigitChars == {"0", "1", "2", "3", "4", "5", "6", "7", "8", "9"}

\* The value of one decimal digit character.
DigitValue(ch) == CHOOSE d \in 0..9 : DigitChar(d) = ch

\* str.strip(chars): drop the leading and the trailing characters in chars.
RECURSIVE lstrip(_, _)
lstrip(s, chars) ==
    IF s # <<>> /\ Head(s) \in chars THEN lstrip(Tail(s), chars) ELSE s

RECURSIVE rstrip(_, _)
rstrip(s, chars) ==
    IF s # <<>> /\ s[Len(s)] \in chars
    THEN rstrip(SubSeq(s, 1, Len(s) - 1), chars) ELSE s

strip(s, chars) == rstrip(lstrip(s, chars), chars)

\* str.split(sep) for a one-character separator: the fields between the
\* separators (always at least one field).
RECURSIVE split_from(_, _, _, _)
split_from(s, sep, i, field) ==
    IF i > Len(s) THEN <<field>>
    ELSE IF s[i] = sep THEN <<field>> \o split_from(s, sep, i + 1, <<>>)
    ELSE split_from(s, sep, i + 1, Append(field, s[i]))

split(s, sep) == split_from(s, sep, 1, <<>>)

\* The value of a run of decimal digits.
RECURSIVE DecimalValue(_)
DecimalValue(s) ==
    IF s = <<>> THEN 0
    ELSE 10 * DecimalValue(SubSeq(s, 1, Len(s) - 1)) + DigitValue(s[Len(s)])

\* int(s) on text made of digits: <<value>>; None stands for ValueError.
int(s) ==
    IF s # <<>> /\ \A i \in 1..Len(s) : s[i] \in DigitChars
    THEN <<DecimalValue(s)>> ELSE None


\* ------------------------------------------------------------------ state

VARIABLES
    self,   \* the YSASignalGUI object: its viewer fields and widgets
    last,   \* the operation that ran last, the failure it met, the dialog it showed
    disk,   \* the file system: for each file name, None or <<container>>
    saved,  \* for each file name, <<recording>> while the file is as
            \* save_processed_data wrote it for that recording, else None
    main_pc,            \* where the main thread is: importing, in a mode, exited
    frame,              \* the locals of the handler the main thread is inside
    sys,                \* what sys.stdout and sys.stderr are bound to
    updater,            \* the update-check thread: its position, lines printed
    update_check_done,  \* the package's _update_check_done
    terminal            \* banner lines that reached the real stderr

vars == <<self, last, disk, saved, main_pc, frame, sys, updater, update_check_done,
          terminal>>

files == <<disk, saved>>

\* The state of the process around the viewer and the files.
process == <<main_pc, frame, sys, updater, update_check_done, terminal>>

\* The standard streams as the interpreter binds them.
RealStreams == [stdout |-> "stdout", stderr |-> "stderr"]

\* The update-check thread before threading.Thread(...).start().
Unstarted == [pc |-> "unstarted", printed |-> 0]

\* A message box: <<function, title, message, detail>>; None when none was shown.
Dialog(fn, title, message, detail) == <<fn, title, message, detail>>

\* The axes as init_viewer_tab leaves them and as ax.clear() leaves them.
EmptyAxes == [title |-> <<>>, lines |-> <<>>, spans |-> <<>>, legend |-> FALSE]

\* The fields of the window after __init__: init_process_tab, init_viewer_tab.
InitialGUI(matplotlib_available) ==
    [matplotlib_available |-> matplotlib_available,
     channel_search       |-> <<>>,
     channel_listbox      |-> <<>>,
     curselection         |-> None,
     all_channels         |-> <<>>,
     selected_channel     |-> None,
     ax                   |-> EmptyAxes,
     viewer_data          |-> None,
     process_button       |-> "normal"]

\* ------------------------------------------------------- Channel Discovery

\* channel_listbox.insert(0, channel_str): a new entry goes to the top.
listbox_insert_top(listbox, entry) == <<entry>> \o listbox

\* channel_listbox.insert(tk.END, channel_str)
listbox_insert_end(listbox, entry) == Append(listbox, entry)

\* The loop of filter_channels over all_channels[i..].
RECURSIVE filter_loop(_, _, _, _)
filter_loop(all_channels, search_text, i, listbox) ==
    IF i > Len(all_channels) THEN listbox
    ELSE LET row == all_channels[i][1]
             col == all_channels[i][2]
         IN  filter_loop(all_channels, search_text, i + 1,
                 IF search_text = <<>> \/ fuzzy_match(search_text, search_str(row, col))
                 THEN listbox_insert_end(listbox, channel_str(row, col))
                 ELSE listbox)

\* A filter that also drops the current selection.
filter_channels_resetting(gui) ==
    [gui EXCEPT !.channel_listbox =
                    filter_loop(gui.all_channels, lower(gui.channel_search), 1, <<>>),
                !.curselection = None,
                !.selected_channel = None]

\* filter_channels: clear the listbox (and with it the highlighted entry),
\* then list the channels that match the lower-cased search text.
filter_channels(gui) ==
    [gui EXCEPT !.channel_listbox =
                    filter_loop(gui.all_channels, lower(gui.channel_search), 1, <<>>),
                !.curselection = None]

\* A parser that does not strip the parentheses.
parse_channel_text_unstripped(selected_text) ==
    LET parts == split(selected_text, ",")
    IN  IF Len(parts) = 2
        THEN <<int(strip(parts[1], Whitespace)), int(strip(parts[2], Whitespace))>>
        ELSE None

\* on_channel_select's parse of "(row, col)": None when the text does not
\* split in two, else <<int(row text), int(col text)>>.
parse_channel_text(selected_text) ==
    LET parts == split(strip(selected_text, {"(", ")"}), ",")
    IN  IF Len(parts) = 2
        THEN <<int(strip(parts[1], Whitespace)), int(strip(parts[2], Whitespace))>>
        ELSE None

\* on_channel_select: with an entry highlighted, parse it and store the
\* coordinate; a ValueError of int() leaves the handler before the assignment.
on_channel_select(gui) ==
    IF gui.curselection = None THEN gui
    ELSE LET parsed == parse_channel_text(gui.channel_listbox[gui.curselection[1] + 1])
         IN  IF parsed # None /\ parsed[1] # None /\ parsed[2] # None
             THEN [gui EXCEPT !.selected_channel = <<parsed[1][1], parsed[2][1]>>]
             ELSE gui


\* ------------------------------------------------------------ load a file

\* What load_processed_data(filename) does: returns a recording or raises.
Returned(data) == [raised |-> FALSE, value |-> <<data>>, type |-> "", message |-> ""]
Raised(type, message) == [raised |-> TRUE, value |-> None, type |-> type, message |-> message]

\* The error kinds of a load and the texts an exception may carry (str(e)).
LoadErrorTypes == {"CorruptFileError", "DataIntegrityError"}
ErrorMessages == {"unable to read file", "missing field"}

\* What a handler hands back: the object's new fields, the failure it met
\* ("" when none) and the message box it showed (None when none).
Outcome(gui, cause, dialog) == [gui |-> gui, cause |-> cause, dialog |-> dialog]

\* channel_listbox.selection_set(0): highlight entry 0 when the list has one.
selection_set_first(gui) ==
    IF gui.channel_listbox # <<>> THEN [gui EXCEPT !.curselection = <<0>>] ELSE gui

\* The success path of load_viewer_file after load_processed_data returned.
populate_after_load(gui, data) ==
    LET g1 == [gui EXCEPT !.viewer_data = <<data>>]
        g2 == [g1 EXCEPT !.all_channels = sorted(data.active_channels)]
        g3 == filter_channels(g2)
    IN  IF g3.all_channels # <<>>
        THEN selection_set_first([g3 EXCEPT !.selected_channel = g3.all_channels[1]])
        ELSE g3

\* A load_viewer_file that drops the loaded recording before it reads the file.
load_viewer_file_dropping_first(gui, filename, exists, result) ==
    IF ~gui.matplotlib_available
    THEN Outcome(gui, "no_matplotlib",
                 Dialog("showerror", "Error", "Matplotlib not available", ""))
    ELSE IF filename = ""
    THEN Outcome(gui, "no_file_selected",
                 Dialog("showerror", "Error", "Please select a file", ""))
    ELSE IF ~exists
    THEN Outcome(gui, "not_found",
                 Dialog("showerror", "Error", "File not found: ", filename))
    ELSE IF result.raised
    THEN Outcome([gui EXCEPT !.viewer_data = None], result.type,
                 Dialog("showerror", "Error", "Failed to load file:\n", result.message))
    ELSE LET data == result.value[1]
         IN  Outcome(populate_after_load(gui, data), "",
                     Dialog("showinfo", "Success", "Loaded channels: ",
                            ToString(Cardinality(data.active_channels))))

\* load_viewer_file, with viewer_file.get(), os.path.exists(filename) and the
\* outcome of load_processed_data(filename) as inputs.
load_viewer_file(gui, filename, exists, result) ==
    IF ~gui.matplotlib_available
    THEN Outcome(gui, "no_matplotlib",
                 Dialog("showerror", "Error", "Matplotlib not available", ""))
    ELSE IF filename = ""
    THEN Outcome(gui, "no_file_selected",
                 Dialog("showerror", "Error", "Please select a file", ""))
    ELSE IF ~exists
    THEN Outcome(gui, "not_found",
                 Dialog("showerror", "Error", "File not found: ", filename))
    ELSE IF result.raised
    THEN Outcome(gui, result.type,
                 Dialog("showerror", "Error", "Failed to load file:\n", result.message))
    ELSE LET data == result.value[1]
         IN  Outcome(populate_after_load(gui, data), "",
                     Dialog("showinfo", "Success", "Loaded channels: ",
                            ToString(Cardinality(data.active_channels))))

\* ------------------------------------------------------------------- plot

Min(a, b) == IF a <= b THEN a ELSE b

\* The axvspan calls for one interval list.
Spans(times, color, label) ==
    [i \in 1..Len(times) |->
        [color |-> color, start |-> times[i][1], end |-> times[i][2],
         label |-> IF times[i][1] = times[1][1] THEN label ELSE ""]]

\* The axes after a channel was drawn.
PlottedAxes(data, row, col, channel_data) ==
    LET signal == channel_data.signal
        time   == SubSeq(data.time_vector, 1, Min(Len(signal), Len(data.time_vector)))
    IN  [title  |-> <<row, col, Len(signal), data.sampling_rate>>,
         lines  |-> <<[x |-> time, y |-> signal]>>,
         spans  |-> Spans(channel_data.SzTimes, "blue", "Seizure")
                    \o Spans(channel_data.SETimes, "orange", "SE"),
         legend |-> Len(channel_data.SzTimes) > 0 \/ Len(channel_data.SETimes) > 0
                    \/ Len(channel_data.DischargeTimes) > 0]

\* A plot_signal that clears the axes before it looks the channel up.
plot_signal_clearing_first(gui) ==
    IF ~gui.matplotlib_available
    THEN Outcome(gui, "no_matplotlib",
                 Dialog("showerror", "Error", "Matplotlib not available", ""))
    ELSE IF gui.viewer_data = None
    THEN Outcome(gui, "no_file_loaded",
                 Dialog("showerror", "Error", "Please load a file first", ""))
    ELSE IF gui.selected_channel = None
    THEN Outcome(gui, "no_channel_selected",
                 Dialog("showerror", "Error", "Please select a channel from the list", ""))
    ELSE LET data == gui.viewer_data[1]
             row  == gui.selected_channel[1]
             col  == gui.selected_channel[2]
             channel_data == get_channel_data(data, row, col)
         IN  IF channel_data = None
             THEN Outcome([gui EXCEPT !.ax = EmptyAxes], "no_data",
                          Dialog("showerror", "Error", "Channel has no data",
                                 ToString(<<row, col, Cardinality(data.active_channels)>>)))
             ELSE IF Len(channel_data[1].signal) > Len(data.time_vector)
             THEN Outcome([gui EXCEPT !.ax = EmptyAxes], "plot_failed",
                          Dialog("showerror", "Error", "Failed to plot signal:\n",
                                 "x and y must have same first dimension"))
             ELSE Outcome([gui EXCEPT !.ax = PlottedAxes(data, row, col, channel_data[1])],
                          "", None)

\* plot_signal: draw the selected channel of the loaded recording.
plot_signal(gui) ==
    IF ~gui.matplotlib_available
    THEN Outcome(gui, "no_matplotlib",
                 Dialog("showerror", "Error", "Matplotlib not available", ""))
    ELSE IF gui.viewer_data = None
    THEN Outcome(gui, "no_file_loaded",
                 Dialog("showerror", "Error", "Please load a file first", ""))
    ELSE IF gui.selected_channel = None
    THEN Outcome(gui, "no_channel_selected",
                 Dialog("showerror", "Error", "Please select a channel from the list", ""))
    ELSE LET data == gui.viewer_data[1]
             row  == gui.selected_channel[1]
             col  == gui.selected_channel[2]
             channel_data == get_channel_data(data, row, col)
         IN  IF channel_data = None
             THEN Outcome(gui, "no_data",
                          Dialog("showerror", "Error", "Channel has no data",
                                 ToString(<<row, col, Cardinality(data.active_channels)>>)))
             ELSE IF Len(channel_data[1].signal) > Len(data.time_vector)
             THEN \* ax.plot raises on x and y of different lengths, after ax.clear()
                  Outcome([gui EXCEPT !.ax = EmptyAxes], "plot_failed",
                          Dialog("showerror", "Error", "Failed to plot signal:\n",
                                 "x and y must have same first dimension"))
             ELSE Outcome([gui EXCEPT !.ax = PlottedAxes(data, row, col, channel_data[1])],
                          "", None)

\* ---------------------------------------------------- the viewer's events

\* The texts one edit of the search box can leave in it: a character typed
\* at the end, the last character deleted, the box cleared.
Edits(text) ==
    {Append(text, ch) : ch \in IF Len(text) < MaxQueryLen THEN QueryChars ELSE {}}
      \cup (IF text = <<>> THEN {} ELSE {SubSeq(text, 1, Len(text) - 1), <<>>})

Filenames == {"a.h5"}

LoadResults ==
    {Returned(data) : data \in Recordings}
      \cup {Raised(t, m) : t \in LoadErrorTypes, m \in ErrorMessages}

\* load_processed_data is not reached when the path is empty or missing.
NotCalled == Raised("", "")

Ran(op, arg, cause, dialog) == [op |-> op, arg |-> arg, cause |-> cause, dialog |-> dialog]

\* The user edits the search box: the write trace of channel_search runs
\* filter_channels.
WriteSearch(text) ==
    /\ self.matplotlib_available
    /\ self' = filter_channels([self EXCEPT !.channel_search = text])
    /\ last' = Ran("filter_channels", 0, "", None)

\* The user clicks listbox entry index: Tk highlights it and delivers
\* <<ListboxSelect>> to on_channel_select.
ClickEntry(index) ==
    /\ self.matplotlib_available
    /\ index < Len(self.channel_listbox)
    /\ self' = on_channel_select([self EXCEPT !.curselection = <<index>>])
    /\ last' = Ran("on_channel_select", index, "", None)

\* The user presses Load.
PressLoad(filename, exists, result) ==
    /\ self.matplotlib_available
    /\ \E out \in {load_viewer_file(self, filename, exists, result)} :
           /\ self' = out.gui
           /\ last' = Ran("load_viewer_file", 0, out.cause, out.dialog)

\* The user presses Plot Signal (or double-clicks an entry).
PressPlot ==
    /\ self.matplotlib_available
    /\ LET out == plot_signal(self)
       IN  /\ self' = out.gui
           /\ last' = Ran("plot_signal", 0, out.cause, out.dialog)

\* The viewer with the file system as its environment: a load may find no
\* file, or a file that load_processed_data reads or rejects.
Init ==
    /\ self \in {InitialGUI(m) : m \in BOOLEAN}
    /\ last = Ran("__init__", 0, "", None)
    /\ disk = [f \in Filenames |-> None]
    /\ saved = [f \in Filenames |-> None]
    /\ main_pc = "gui"
    /\ frame = None
    /\ sys = RealStreams
    /\ updater = Unstarted
    /\ update_check_done = FALSE
    /\ terminal = 0

Next ==
    \/ \E text \in Edits(self.channel_search) : WriteSearch(text) /\ UNCHANGED <<files, process>>
    \/ \E index \in 0..(MaxActive - 1) : ClickEntry(index) /\ UNCHANGED <<files, process>>
    \/ PressLoad("", FALSE, NotCalled) /\ UNCHANGED <<files, process>>
    \/ \E filename \in Filenames : PressLoad(filename, FALSE, NotCalled) /\ UNCHANGED <<files, process>>
    \/ \E filename \in Filenames, result \in LoadResults :
           PressLoad(filename, TRUE, result) /\ UNCHANGED <<files, process>>
    \/ PressPlot /\ UNCHANGED <<files, process>>

Spec == Init /\ [][Next]_vars


\* -------------------------------------------------- the persistence codec

\* An event-interval list as a two-column table of the container.
Table(times) ==
    [start |-> [i \in 1..Len(times) |-> times[i][1]],
     end   |-> [i \in 1..Len(times) |-> times[i][2]]]

\* The rows of a two-column table, as (start, end) pairs.
Rows(table) == [i \in 1..Len(table.start) |-> <<table.start[i], table.end[i]>>]

\* The container save_processed_data writes: the scalars, the time vector,
\* the active-channel coordinates, and one group per active channel with its
\* signal and its three interval tables.
Encode(data) ==
    [sampling_rate    |-> data.sampling_rate,
     recording_length |-> data.recording_length,
     time_vector      |-> data.time_vector,
     active_channels  |-> sorted(data.active_channels),
     groups           |->
        [c \in data.active_channels |->
            [signal                       |-> data.channels[c].signal,
             seizure_intervals            |-> Table(data.channels[c].SzTimes),
             status_epilepticus_intervals |-> Table(data.channels[c].SETimes),
             discharge_intervals          |-> Table(data.channels[c].DischargeTimes)]]]

\* The recording a well-formed container holds.
Decode(container) ==
    LET active == {container.active_channels[i] : i \in 1..Len(container.active_channels)}
    IN  [sampling_rate    |-> container.sampling_rate,
         recording_length |-> container.recording_length,
         time_vector      |-> container.time_vector,
         active_channels  |-> active,
         channels         |->
            [c \in active |->
                [signal         |-> container.groups[c].signal,
                 SzTimes        |-> Rows(container.groups[c].seizure_intervals),
                 SETimes        |-> Rows(container.groups[c].status_epilepticus_intervals),
                 DischargeTimes |-> Rows(container.groups[c].discharge_intervals)]]]

\* The invariants of a processed recording (checked at construction).
ValidRecording(data) ==
    /\ data.sampling_rate > 0
    /\ data.recording_length > 0
    /\ DOMAIN data.channels = data.active_channels
    /\ \A c \in data.active_channels :
          Len(data.channels[c].signal) <= Len(data.time_vector)

\* A container whose active-channel list agrees with its channel groups.
WellFormed(container) ==
    {container.active_channels[i] : i \in 1..Len(container.active_channels)}
        = DOMAIN container.groups

\* load_processed_data on the content of a file: the recording, or the error
\* of a missing file, of a malformed container, of a recording that breaks
\* an invariant. message is the text the exception carries.
load_processed_data(file, message) ==
    IF file = None THEN Raised("FileNotFoundError", message)
    ELSE IF ~WellFormed(file[1]) THEN Raised("CorruptFileError", message)
    ELSE IF ~ValidRecording(Decode(file[1])) THEN Raised("DataIntegrityError", message)
    ELSE Returned(Decode(file[1]))

\* save_processed_data: the container on success; an error when the
\* recording breaks an invariant or the file system refuses the write.
save_processed_data(data, writable, message) ==
    IF ~ValidRecording(data) THEN Raised("SerializationError", message)
    ELSE IF ~writable THEN Raised("IOWriteError", message)
    ELSE Returned(Encode(data))

\* ---------------------------------------------------------------- cli_mode

\* A recording processed with analysis off: the interval lists are empty.
WithoutEvents(data) ==
    [data EXCEPT !.channels =
        [c \in data.active_channels |->
            [data.channels[c] EXCEPT !.SzTimes = <<>>, !.SETimes = <<>>,
                                     !.DischargeTimes = <<>>]]]

ProcessErrorTypes == {"FileNotFoundError", "RuntimeError"}

\* What process_and_store(input_file, do_analysis) may do.
ProcessResults(do_analysis) ==
    {Returned(IF do_analysis THEN data ELSE WithoutEvents(data)) : data \in Recordings}
      \cup {Raised(t, m) : t \in ProcessErrorTypes, m \in ErrorMessages}

\* What a run of cli_mode leaves: its return value, the error it printed
\* ("" when none), the collaborators it called in order, and the output file.
CliOutcome(ret, cause, calls, file) ==
    [ret |-> ret, cause |-> cause, calls |-> calls, file |-> file]

\* A cli_mode that reports success without saving.
cli_mode_skipping_save(cpp_available, process_result, writable, message, file) ==
    IF ~cpp_available THEN CliOutcome(1, "no_cpp", <<>>, file)
    ELSE IF process_result.raised
    THEN CliOutcome(1, process_result.type, <<"process_and_store">>, file)
    ELSE CliOutcome(0, "", <<"process_and_store">>, file)

\* A cli_mode that reports success whatever save_processed_data did.
cli_mode_ignoring_save_error(cpp_available, process_result, writable, message, file) ==
    IF ~cpp_available THEN CliOutcome(1, "no_cpp", <<>>, file)
    ELSE IF process_result.raised
    THEN CliOutcome(1, process_result.type, <<"process_and_store">>, file)
    ELSE LET processed_data == process_result.value[1]
             save_result == save_processed_data(processed_data, writable, message)
             calls == <<"process_and_store", "save_processed_data">>
         IN  IF save_result.raised
             THEN CliOutcome(0, "", calls, file)
             ELSE CliOutcome(0, "", calls, <<save_result.value[1]>>)

\* cli_mode(input_file, output_file, do_analysis), with CPP_AVAILABLE, the
\* outcome of process_and_store, whether the output file can be written and
\* the present content of the output file as inputs.
cli_mode(cpp_available, process_result, writable, message, file) ==
    IF ~cpp_available THEN CliOutcome(1, "no_cpp", <<>>, file)
    ELSE IF process_result.raised
    THEN CliOutcome(1, process_result.type, <<"process_and_store">>, file)
    ELSE LET processed_data == process_result.value[1]
             save_result == save_processed_data(processed_data, writable, message)
             calls == <<"process_and_store", "save_processed_data">>
         IN  IF save_result.raised
             THEN CliOutcome(1, save_result.type, calls, file)
             ELSE CliOutcome(0, "", calls, <<save_result.value[1]>>)

\* --------------------------------------------- process, save, load, re-save

\* A run of the command line: ysa_signal input_file output_file [--do-analysis].
RunCli(cpp_available, output_file, do_analysis, process_result, writable, message) ==
    LET out == cli_mode(cpp_available, process_result, writable, message, disk[output_file])
    IN  /\ disk' = [disk EXCEPT ![output_file] = out.file]
        /\ saved' = [saved EXCEPT ![output_file] =
                        IF out.ret = 0 THEN process_result.value ELSE saved[output_file]]
        /\ last' = Ran("cli_mode", out.ret, out.cause, None)
        /\ UNCHANGED self

\* The user presses Load with filename in the entry: the file system decides
\* what os.path.exists and load_processed_data answer.
PressLoadFromDisk(filename, message) ==
    /\ PressLoad(filename, disk[filename] # None,
                 load_processed_data(disk[filename], message))
    /\ UNCHANGED files

\* A program saves the recording it loaded, through the package's
\* save_processed_data, over the file it loaded it from.
SaveLoaded(filename, message) ==
    /\ self.viewer_data # None
    /\ LET result == save_processed_data(self.viewer_data[1], TRUE, message)
       IN  /\ ~result.raised
           /\ disk' = [disk EXCEPT ![filename] = <<result.value[1]>>]
           /\ saved' = [saved EXCEPT ![filename] = self.viewer_data]
    /\ last' = Ran("save_processed_data", 0, "", None)
    /\ UNCHANGED self

\* Something outside the program damages or removes a file: a channel group
\* is lost, the sampling rate is zeroed, the file is deleted.
Damage(filename, how) ==
    /\ disk[filename] # None
    /\ LET container == disk[filename][1]
       IN  disk' = [disk EXCEPT ![filename] =
              CASE how = "delete" -> None
                [] how = "zero_rate" -> <<[container EXCEPT !.sampling_rate = 0]>>
                [] how = "drop_groups" ->
                     <<[container EXCEPT !.groups = [c \in {} |-> 0],
                                         !.active_channels = <<<<5, 5>>>>]>>]
    /\ saved' = [saved EXCEPT ![filename] = None]
    /\ last' = Ran("damage", 0, how, None)
    /\ UNCHANGED self

InitCodec ==
    /\ self = InitialGUI(TRUE)
    /\ last = Ran("__init__", 0, "", None)
    /\ disk = [f \in Filenames |-> None]
    /\ saved = [f \in Filenames |-> None]
    /\ main_pc = "gui"
    /\ frame = None
    /\ sys = RealStreams
    /\ updater = Unstarted
    /\ update_check_done = FALSE
    /\ terminal = 0

NextCodec ==
    \/ \E output_file \in Filenames :
          RunCli(FALSE, output_file, FALSE, NotCalled, TRUE, "") /\ UNCHANGED process
    \/ \E output_file \in Filenames, do_analysis \in BOOLEAN, writable \in BOOLEAN :
          \E process_result \in ProcessResults(do_analysis) :
              RunCli(TRUE, output_file, do_analysis, process_result, writable,
                     "unable to write file") /\ UNCHANGED process
    \/ \E filename \in Filenames, message \in ErrorMessages :
          PressLoadFromDisk(filename, message) /\ UNCHANGED process
    \/ \E filename \in Filenames : SaveLoaded(filename, "unable to write file") /\ UNCHANGED process
    \/ \E filename \in Filenames, how \in {"delete", "zero_rate", "drop_groups"} :
          Damage(filename, how) /\ UNCHANGED process

SpecCodec == InitCodec /\ [][NextCodec]_vars

\* ------------------------------------ package import and the update check

\* The banner of _check_for_updates is four print calls.
BannerLines == 4

\* How the request to PyPI may end.
FetchOutcomes == {"offline", "timeout", "malformed", "same_version", "newer_version"}

\* from ysa_signal import main: the module imports helper_functions, and
\* exits the process when that fails.
ImportMain(helpers_importable) ==
    /\ main_pc = "import_main"
    /\ main_pc' = IF helpers_importable THEN "start_thread" ELSE "exited"
    /\ last' = IF helpers_importable THEN last ELSE Ran("sys.exit", 1, "ImportError", None)
    /\ UNCHANGED <<self, files, frame, sys, updater, update_check_done, terminal>>

\* threading.Thread(target=_check_for_updates, daemon=True).start(): the
\* thread starts, or start() raises and the exception is swallowed; either
\* way the import goes on.
StartUpdateThread(started) ==
    /\ main_pc = "start_thread"
    /\ updater' = IF started THEN [pc |-> "entry", printed |-> 0] ELSE updater
    /\ main_pc' = "import_helpers"
    /\ UNCHANGED <<self, last, files, frame, sys, update_check_done, terminal>>

\* from helper_functions import (...): the rest of the package's import.
ImportHelpers ==
    /\ main_pc = "import_helpers"
    /\ main_pc' = "ready"
    /\ UNCHANGED <<self, last, files, frame, sys, updater, update_check_done, terminal>>

\* main() with both file arguments: cli_mode runs and the process exits.
MainCli(output_file, do_analysis, process_result, writable) ==
    /\ main_pc = "ready"
    /\ RunCli(TRUE, output_file, do_analysis, process_result, writable,
              "unable to write file")
    /\ main_pc' = "exited"
    /\ UNCHANGED <<frame, sys, updater, update_check_done, terminal>>

\* main() without arguments: gui_mode builds the window and runs mainloop.
MainGui ==
    /\ main_pc = "ready"
    /\ main_pc' = "gui"
    /\ self' = InitialGUI(TRUE)
    /\ last' = Ran("__init__", 0, "", None)
    /\ UNCHANGED <<files, frame, sys, updater, update_check_done, terminal>>

\* The user edits the search box of the running window.
GuiWriteSearch(text) ==
    /\ main_pc = "gui"
    /\ WriteSearch(text)
    /\ UNCHANGED <<files, process>>

\* load_viewer_file up to the call of load_processed_data: the checks, and
\* with a file to load, sys.stdout and sys.stderr rebound to StringIO objects.
LoadBegin(filename) ==
    /\ main_pc = "gui"
    /\ IF filename = "" \/ disk[filename] = None
       THEN /\ PressLoad(filename, FALSE, NotCalled)
            /\ UNCHANGED <<main_pc, frame, sys>>
       ELSE /\ frame' = [filename |-> filename, old_stdout |-> sys.stdout,
                         old_stderr |-> sys.stderr]
            /\ sys' = [stdout |-> "StringIO", stderr |-> "StringIO"]
            /\ main_pc' = "loading"
            /\ UNCHANGED <<self, last>>
    /\ UNCHANGED <<files, updater, update_check_done, terminal>>

\* load_viewer_file from the call of load_processed_data on: the streams
\* are restored (finally), then the channel list is populated or the error
\* is shown.
LoadFinish(message) ==
    /\ main_pc = "loading"
    /\ \E result \in {load_processed_data(disk[frame.filename], message)} :
          PressLoad(frame.filename, TRUE, result)
    /\ sys' = [stdout |-> frame.old_stdout, stderr |-> frame.old_stderr]
    /\ frame' = None
    /\ main_pc' = "gui"
    /\ UNCHANGED <<files, updater, update_check_done, terminal>>

\* The user closes the window: mainloop returns and the process exits.
CloseWindow ==
    /\ main_pc = "gui"
    /\ main_pc' = "exited"
    /\ UNCHANGED <<self, last, files, frame, sys, updater, update_check_done, terminal>>

\* The update thread is a daemon: it runs only while the process lives.
UpdaterAlive == main_pc # "exited"

\* _check_for_updates, entry: return when the check was done, else mark it done.
UpdaterEnter ==
    /\ UpdaterAlive /\ updater.pc = "entry"
    /\ IF update_check_done
       THEN updater' = [updater EXCEPT !.pc = "done"] /\ UNCHANGED update_check_done
       ELSE updater' = [updater EXCEPT !.pc = "fetching"] /\ update_check_done' = TRUE
    /\ UNCHANGED <<self, last, files, main_pc, frame, sys, terminal>>

\* What the thread does with the outcome of the request when exceptions
\* are not caught.
after_fetch_uncaught(outcome) ==
    IF outcome = "newer_version" THEN "printing"
    ELSE IF outcome = "same_version" THEN "done"
    ELSE "raised"

\* What the thread does with the outcome of the request: an exception
\* (offline, timeout, malformed response) is swallowed, an equal version
\* ends the check, a different version prints the banner.
after_fetch(outcome) ==
    IF outcome = "newer_version" THEN "printing" ELSE "done"

\* The request to PyPI returns or raises.
UpdaterFetch(outcome) ==
    /\ UpdaterAlive /\ updater.pc = "fetching"
    /\ updater' = [updater EXCEPT !.pc = after_fetch(outcome)]
    /\ UNCHANGED <<self, last, files, main_pc, frame, sys, update_check_done, terminal>>

\* One print(..., file=sys.stderr) of the banner: the line goes to what
\* sys.stderr is bound to at that moment; a print that raises ends the check.
UpdaterPrint(printable) ==
    /\ UpdaterAlive /\ updater.pc = "printing"
    /\ IF ~printable
       THEN updater' = [updater EXCEPT !.pc = "done"] /\ UNCHANGED terminal
       ELSE /\ updater' = [pc |-> IF updater.printed + 1 = BannerLines
                                  THEN "done" ELSE "printing",
                           printed |-> updater.printed + 1]
            /\ terminal' = IF sys.stderr = "stderr" THEN terminal + 1 ELSE terminal
    /\ UNCHANGED <<self, last, files, main_pc, frame, sys, update_check_done>>

\* The texts the user types into the search box of this process.
UpdateQueries == {<<>>, <<"1">>, <<"3">>}

\* The recordings the files of this process hold.
UpdateRecordings == {Recording({}), Recording({<<1, 2>>, <<1, 3>>, <<2, 1>>})}

InitUpdate ==
    /\ self = InitialGUI(TRUE)
    /\ last = Ran("import", 0, "", None)
    /\ disk \in [Filenames -> {None} \cup {<<Encode(data)>> : data \in UpdateRecordings}]
    /\ saved = [f \in Filenames |-> None]
    /\ main_pc = "import_main"
    /\ frame = None
    /\ sys = RealStreams
    /\ updater = Unstarted
    /\ update_check_done = FALSE
    /\ terminal = 0

\* The steps of the main thread.
MainNext ==
    \/ \E helpers_importable \in BOOLEAN : ImportMain(helpers_importable)
    \/ \E started \in BOOLEAN : StartUpdateThread(started)
    \/ ImportHelpers
    \/ \E output_file \in Filenames, do_analysis \in BOOLEAN, writable \in BOOLEAN :
          \E process_result \in {Returned(data) : data \in UpdateRecordings}
                                  \cup {Raised("RuntimeError", "unable to read file")} :
              MainCli(output_file, do_analysis, process_result, writable)
    \/ MainGui
    \/ \E text \in Edits(self.channel_search) \cap UpdateQueries : GuiWriteSearch(text)
    \/ \E filename \in Filenames \cup {""} : LoadBegin(filename)
    \/ \E message \in ErrorMessages : LoadFinish(message)
    \/ CloseWindow

\* The steps of the update-check thread.
UpdaterNext ==
    \/ UpdaterEnter
    \/ \E outcome \in FetchOutcomes : UpdaterFetch(outcome)
    \/ \E printable \in BOOLEAN : UpdaterPrint(printable)

NextUpdate == MainNext \/ UpdaterNext

SpecUpdate == InitUpdate /\ [][NextUpdate]_vars

\* ------------------------------------------------------------ process_file

\* The state of the update-check thread, which process_file never touches.
thread == <<updater, update_check_done, terminal>>

\* The raw recordings the user may pick as input.
InputFiles == {"a.brw"}

\* What sys.stdout and sys.stderr are bound to when the window starts: the
\* terminal, or a file the launcher redirected the process to.
LaunchStreams == {RealStreams, [stdout |-> "logfile", stderr |-> "logfile"]}

\* The StringIO objects that swallow the output of a call.
Captured == [stdout |-> "StringIO", stderr |-> "StringIO"]

\* What process_and_store may do for the file the user picked.
ProcessFileResults ==
    {Returned(data) : data \in UpdateRecordings}
      \cup {Raised(t, "unable to read file") : t \in ProcessErrorTypes}

\* The positions of process_file at which self.log runs master.update(),
\* which dispatches the events that are waiting.
LogPositions == {"log_start", "log_processed", "log_saved", "log_error"}

\* The positions inside process_file after its validation.
InProcess == LogPositions \cup {"processing", "saving"}

\* The positions of the main thread at which Tk dispatches events.
Dispatching == {"gui"} \cup LogPositions

\* The checks at the head of process_file: the error dialog of the first
\* check that fails, or None.
process_file_validation(input_file, output_file, exists) ==
    IF input_file = ""
    THEN <<"no_input", Dialog("showerror", "Error", "Please select an input file.", "")>>
    ELSE IF output_file = ""
    THEN <<"no_output", Dialog("showerror", "Error", "Please select an output file.", "")>>
    ELSE IF ~exists
    THEN <<"not_found", Dialog("showerror", "Error", "Input file not found: ", input_file)>>
    ELSE None

\* A process_file that re-enables the button only at the end of the try block.
button_at_return_without_finally(raised) == IF raised THEN "disabled" ELSE "normal"

\* The state of the process button when process_file returns from its try
\* statement: the finally clause sets it whether or not an exception was caught.
button_at_return(raised) == "normal"

\* The bindings of sys.stdout and sys.stderr after a redirected call: the
\* finally clause puts back the saved objects whether or not the call raised.
streams_after_call(fr, raised) == [stdout |-> fr.old_stdout, stderr |-> fr.old_stderr]

\* The user presses Process File; Tk runs the command only of a button that
\* is not disabled. A failed check shows its dialog and returns; otherwise
\* the button is disabled and the first lines are logged. streams_at_call
\* remembers what the streams were when process_file was called.
ProcessBegin(input_file, output_file, exists) ==
    /\ main_pc \in Dispatching
    /\ self.process_button = "normal"
    /\ LET failed == process_file_validation(input_file, output_file, exists)
       IN  IF failed # None
           THEN /\ last' = Ran("process_file", 0, failed[1], failed[2])
                /\ UNCHANGED <<self, main_pc, frame>>
           ELSE /\ self' = [self EXCEPT !.process_button = "disabled"]
                /\ frame' = [input_file |-> input_file, output_file |-> output_file,
                             streams_at_call |-> sys,
                             old_stdout |-> "", old_stderr |-> "",
                             processed_data |-> None, error |-> NotCalled]
                /\ main_pc' = "log_start"
                /\ UNCHANGED last
    /\ UNCHANGED <<files, sys, thread>>

\* An event of the viewer tab that master.update() or mainloop dispatches:
\* an edit of the search box or a press of Load.
ViewerEvent ==
    /\ main_pc \in Dispatching
    /\ \/ \E text \in Edits(self.channel_search) \cap UpdateQueries : WriteSearch(text)
       \/ \E result \in ProcessFileResults :
             PressLoad("a.h5", TRUE,
                       IF result.raised THEN Raised("CorruptFileError", result.message)
                       ELSE result)
    /\ UNCHANGED <<files, main_pc, frame, sys, thread>>

\* old_stdout = sys.stdout; old_stderr = sys.stderr; then the streams are
\* bound to StringIO objects for the call of process_and_store.
ProcessRedirect ==
    /\ main_pc = "log_start"
    /\ frame' = [frame EXCEPT !.old_stdout = sys.stdout, !.old_stderr = sys.stderr]
    /\ sys' = Captured
    /\ main_pc' = "processing"
    /\ UNCHANGED <<self, last, files, thread>>

\* process_and_store returns or raises; the finally clause restores the streams.
ProcessCall(result) ==
    /\ main_pc = "processing"
    /\ sys' = streams_after_call(frame, result.raised)
    /\ frame' = IF result.raised THEN [frame EXCEPT !.error = result]
                ELSE [frame EXCEPT !.processed_data = result.value]
    /\ main_pc' = IF result.raised THEN "log_error" ELSE "log_processed"
    /\ UNCHANGED <<self, last, files, thread>>

\* The streams are bound to StringIO objects again for save_processed_data.
SaveRedirect ==
    /\ main_pc = "log_processed"
    /\ sys' = Captured
    /\ main_pc' = "saving"
    /\ UNCHANGED <<self, last, files, frame, thread>>

\* save_processed_data writes the file or raises; the finally clause
\* restores the streams.
SaveCall(writable) ==
    /\ main_pc = "saving"
    /\ \E result \in {save_processed_data(frame.processed_data[1], writable,
                                          "unable to write file")} :
          /\ sys' = streams_after_call(frame, result.raised)
          /\ frame' = IF result.raised THEN [frame EXCEPT !.error = result] ELSE frame
          /\ main_pc' = IF result.raised THEN "log_error" ELSE "log_saved"
          /\ disk' = IF result.raised THEN disk
                     ELSE [disk EXCEPT ![frame.output_file] = <<result.value[1]>>]
          /\ saved' = IF result.raised THEN saved
                      ELSE [saved EXCEPT ![frame.output_file] = frame.processed_data]
    /\ UNCHANGED <<self, last, thread>>

\* The summary is logged, the success dialog shown, and the finally clause
\* re-enables the button: process_file returns.
ProcessSucceed ==
    /\ main_pc = "log_saved"
    /\ self' = [self EXCEPT !.process_button = button_at_return(FALSE)]
    /\ last' = Ran("process_file", 0, "",
                   Dialog("showinfo", "Success", "Processing complete!", ""))
    /\ main_pc' = "gui"
    /\ frame' = None
    /\ UNCHANGED <<files, sys, thread>>

\* except Exception as e: the error is logged and shown, and the finally
\* clause re-enables the button: process_file returns.
ProcessFail ==
    /\ main_pc = "log_error"
    /\ self' = [self EXCEPT !.process_button = button_at_return(TRUE)]
    /\ last' = Ran("process_file", 0, frame.error.type,
                   Dialog("showerror", "Error", "An error occurred:\n", frame.error.message))
    /\ main_pc' = "gui"
    /\ frame' = None
    /\ UNCHANGED <<files, sys, thread>>

InitProcess ==
    /\ self \in {InitialGUI(m) : m \in BOOLEAN}
    /\ last = Ran("__init__", 0, "", None)
    /\ disk = [f \in Filenames |-> None]
    /\ saved = [f \in Filenames |-> None]
    /\ main_pc = "gui"
    /\ frame = None
    /\ sys \in LaunchStreams
    /\ updater = Unstarted
    /\ update_check_done = FALSE
    /\ terminal = 0

NextProcess ==
    \/ \E input_file \in InputFiles \cup {""}, output_file \in Filenames \cup {""},
          exists \in BOOLEAN : ProcessBegin(input_file, output_file, exists)
    \/ ViewerEvent
    \/ ProcessRedirect
    \/ \E result \in ProcessFileResults : ProcessCall(result)
    \/ SaveRedirect
    \/ \E writable \in BOOLEAN : SaveCall(writable)
    \/ ProcessSucceed
    \/ ProcessFail

SpecProcess == InitProcess /\ [][NextProcess]_vars

\* ------------------------------------------------- runs of the command line

\* One run of `ysa_signal input_file output_file`: main calls cli_mode and
\* the process exits with what it returned. frame keeps the inputs of the
\* run and the collaborators it called, in order.
CliRun(cpp_available, output_file, process_result, writable) ==
    /\ main_pc = "ready"
    /\ RunCli(cpp_available, output_file, TRUE, process_result, writable,
              "unable to write file")
    /\ frame' = [cpp_available |-> cpp_available,
                 process_result |-> process_result,
                 writable |-> writable,
                 calls |-> cli_mode(cpp_available, process_result, writable,
                                    "unable to write file", disk[output_file]).calls]
    /\ main_pc' = "exited"
    /\ UNCHANGED <<sys, thread>>

\* The user starts the program again.
Relaunch ==
    /\ main_pc = "exited"
    /\ main_pc' = "ready"
    /\ frame' = None
    /\ UNCHANGED <<self, last, files, sys, thread>>

InitCli ==
    /\ self = InitialGUI(TRUE)
    /\ last = Ran("import", 0, "", None)
    /\ disk = [f \in Filenames |-> None]
    /\ saved = [f \in Filenames |-> None]
    /\ main_pc = "ready"
    /\ frame = None
    /\ sys = RealStreams
    /\ updater = Unstarted
    /\ update_check_done = FALSE
    /\ terminal = 0

NextCli ==
    \/ \E output_file \in Filenames, writable \in BOOLEAN :
          CliRun(FALSE, output_file, NotCalled, writable)
    \/ \E output_file \in Filenames, writable \in BOOLEAN :
          \E process_result \in ProcessResults(TRUE) :
              CliRun(TRUE, output_file, process_result, writable)
    \/ Relaunch

SpecCli == InitCli /\ [][NextCli]_vars

\* ------------------------------------------------------------- properties

\* q is a subsequence of key: a strictly increasing index sequence into key
\* spells q.
IsSubsequence(q, key) ==
    \E f \in [1..Len(q) -> 1..Len(key)] :
        /\ \A i, j \in 1..Len(q) : i < j => f[i] < f[j]
        /\ \A i \in 1..Len(q) : key[f[i]] = q[i]

Listed(c) ==
    \E i \in 1..Len(self.channel_listbox) : self.channel_listbox[i] = channel_str(c[1], c[2])

ScenarioChannels == <<<<1, 2>>, <<1, 3>>, <<2, 1>>>>

\* C1: a channel of all_channels is listed if and only if the lower-cased
\* search text is a subsequence of its key (row digits followed by col
\* digits); nothing else is listed; the empty text lists every channel; and
\* for the channels (1,2), (1,3), (2,1) the text "13" lists exactly (1, 3).
C1_MatchingRule ==
    /\ \A i \in 1..Len(self.all_channels) :
          LET c == self.all_channels[i]
          IN  Listed(c) <=> IsSubsequence(lower(self.channel_search),
                                          Digits(c[1]) \o Digits(c[2]))
    /\ \A i \in 1..Len(self.channel_listbox) :
          \E j \in 1..Len(self.all_channels) :
              self.channel_listbox[i] =
                  channel_str(self.all_channels[j][1], self.all_channels[j][2])
    /\ self.channel_search = <<>> =>
          Len(self.channel_listbox) = Len(self.all_channels)
    /\ (self.all_channels = ScenarioChannels /\ self.channel_search = <<"1", "3">>) =>
          self.channel_listbox = <<channel_str(1, 3)>>

\* The spec's scenario: with (1,2), (1,3), (2,1) loaded, "13" was typed and
\* (1, 3) alone is listed.
C1_Witness ==
    /\ last.op = "filter_channels"
    /\ self.channel_search = <<"1", "3">>
    /\ self.all_channels = ScenarioChannels
    /\ self.channel_listbox = <<channel_str(1, 3)>>

\* C4: the listbox is an order-preserving sub-sequence of all_channels (as
\* displayed), all_channels is sorted ascending by (row, col), and no entry
\* is listed twice.
C4_StableOrder ==
    /\ \E f \in [1..Len(self.channel_listbox) -> 1..Len(self.all_channels)] :
          /\ \A i, j \in 1..Len(self.channel_listbox) : i < j => f[i] < f[j]
          /\ \A i \in 1..Len(self.channel_listbox) :
                self.channel_listbox[i] =
                    channel_str(self.all_channels[f[i]][1], self.all_channels[f[i]][2])
    /\ \A i, j \in 1..Len(self.all_channels) :
          i < j => TupleLess(self.all_channels[i], self.all_channels[j])
    /\ \A i, j \in 1..Len(self.channel_listbox) :
          i # j => self.channel_listbox[i] # self.channel_listbox[j]

\* A query listed two of three channels, skipping the one between them.
C4_Witness ==
    /\ last.op = "filter_channels"
    /\ self.all_channels = <<<<1, 3>>, <<2, 1>>, <<10, 3>>>>
    /\ self.channel_listbox = <<channel_str(1, 3), channel_str(10, 3)>>


\* What filter_channels lists for a channel list and a search text on an
\* object that has seen no earlier query, load or selection.
FreshListing(all_channels, search) ==
    filter_channels([InitialGUI(TRUE) EXCEPT !.all_channels = all_channels,
                                             !.channel_search = search]).channel_listbox

\* C5: a run of filter_channels leaves all_channels, viewer_data and
\* selected_channel as they were; what is listed is what the same channel
\* list and search text yield on a fresh object, whatever was queried,
\* loaded or selected before; and a step that changes neither the channel
\* list nor the search text does not change the listing.
C5_FilterIsPure ==
    /\ [](self.channel_listbox = FreshListing(self.all_channels, self.channel_search))
    /\ [][/\ last'.op = "filter_channels" =>
                /\ self'.all_channels = self.all_channels
                /\ self'.viewer_data = self.viewer_data
                /\ self'.selected_channel = self.selected_channel
          /\ (self'.all_channels = self.all_channels
                /\ self'.channel_search = self.channel_search) =>
                self'.channel_listbox = self.channel_listbox]_vars

\* filter_channels ran on a loaded recording with a channel selected, and
\* listed fewer channels than the recording has.
C5_Witness ==
    /\ last.op = "filter_channels"
    /\ self.viewer_data # None
    /\ self.selected_channel # None
    /\ Len(self.channel_listbox) < Len(self.all_channels)

\* channel_str followed by on_channel_select's parse gives the coordinate
\* back, for every coordinate of the grid.
DisplayRoundTrip ==
    \A row \in 0..MaxCoordinate, col \in 0..MaxCoordinate :
        parse_channel_text(channel_str(row, col)) = <<<<row>>, <<col>>>>

\* The channels of all_channels that the search text matches, in order.
Matching ==
    SelectSeq(self.all_channels,
              LAMBDA c : IsSubsequence(lower(self.channel_search),
                                       Digits(c[1]) \o Digits(c[2])))

\* C6: "(row, col)" parses back to (row, col) for every coordinate; every
\* listed entry parses back to the channel that produced it; and after the
\* user selected entry k, selected_channel is the channel that produced
\* entry k.
C6_DisplayRoundTrip ==
    /\ DisplayRoundTrip
    /\ Len(self.channel_listbox) = Len(Matching)
    /\ \A i \in 1..Len(self.channel_listbox) :
          parse_channel_text(self.channel_listbox[i]) =
              <<<<Matching[i][1]>>, <<Matching[i][2]>>>>
    /\ last.op = "on_channel_select" =>
          /\ self.curselection = <<last.arg>>
          /\ self.selected_channel = Matching[last.arg + 1]

\* The user selected the second listed entry, a channel with a two-digit
\* row, while another channel was filtered out.
C6_Witness ==
    /\ last.op = "on_channel_select"
    /\ last.arg = 1
    /\ self.selected_channel = <<10, 3>>
    /\ Len(self.channel_listbox) < Len(self.all_channels)

\* The coordinates the lookup is probed with.
ProbeCoords == Coords \cup {<<5, 5>>, <<0, 0>>}

\* C3: the lookup of a coordinate that is not an active channel of the
\* loaded recording returns None; and plot_signal, run with such a
\* coordinate selected, shows the 'has no data' error and leaves the object,
\* the displayed plot included, exactly as it was.
C3_AbsenceIsTotal ==
    /\ [](self.viewer_data # None =>
            \A c \in ProbeCoords :
                c \notin self.viewer_data[1].active_channels =>
                    get_channel_data(self.viewer_data[1], c[1], c[2]) = None)
    /\ [][(/\ last'.op = "plot_signal"
           /\ self.viewer_data # None
           /\ self.selected_channel # None
           /\ self.selected_channel \notin self.viewer_data[1].active_channels) =>
              /\ self' = self
              /\ last'.cause = "no_data"
              /\ last'.dialog # None
              /\ last'.dialog[1] = "showerror"
              /\ last'.dialog[3] = "Channel has no data"]_vars

\* plot_signal met an inactive coordinate while a plot was on display, and
\* the plot is still there.
C3_Witness ==
    /\ last.op = "plot_signal"
    /\ last.cause = "no_data"
    /\ self.ax # EmptyAxes
    /\ self.selected_channel \notin self.viewer_data[1].active_channels


\* The failures of a load that the spec tells apart.
LoadFailures == {"not_found", "CorruptFileError", "DataIntegrityError"}

\* C7: two loads that failed for different reasons (file not found, file
\* corrupt, loaded data violating an invariant) show the user different
\* results. Stated over two consecutive failed loads.
C7_FailuresDistinguished ==
    [][(/\ last.op = "load_viewer_file" /\ last.cause \in LoadFailures
        /\ last'.op = "load_viewer_file" /\ last'.cause \in LoadFailures
        /\ last.cause # last'.cause) =>
           last.dialog # last'.dialog]_vars

\* The display strings of a list of channels.
Displayed(channels) ==
    [i \in 1..Len(channels) |-> channel_str(channels[i][1], channels[i][2])]

\* C9: after a successful load all_channels is the recording's active
\* channels sorted ascending, the listbox shows every one of them whatever
\* the search box holds, and with at least one channel selected_channel is
\* all_channels[0], which is the entry highlighted at listbox index 0.
C9_LoadListsAllSelectsFirst ==
    (last.op = "load_viewer_file" /\ last.cause = "") =>
        /\ self.all_channels = sorted(self.viewer_data[1].active_channels)
        /\ self.channel_listbox = Displayed(self.all_channels)
        /\ self.all_channels # <<>> =>
              /\ self.selected_channel = self.all_channels[1]
              /\ self.curselection = <<0>>
              /\ self.channel_listbox[1] =
                    channel_str(self.selected_channel[1], self.selected_channel[2])

\* C10: selected_channel is None or an active channel of the recording
\* that is loaded now.
C10_SelectionIsActive ==
    \/ self.selected_channel = None
    \/ /\ self.viewer_data # None
       /\ self.selected_channel \in self.viewer_data[1].active_channels


\* Observational equality of two processed recordings.
SameRecording(a, b) ==
    /\ a.sampling_rate = b.sampling_rate
    /\ a.recording_length = b.recording_length
    /\ a.time_vector = b.time_vector
    /\ a.active_channels = b.active_channels
    /\ \A c \in a.active_channels :
          /\ a.channels[c].signal = b.channels[c].signal
          /\ a.channels[c].SzTimes = b.channels[c].SzTimes
          /\ a.channels[c].SETimes = b.channels[c].SETimes
          /\ a.channels[c].DischargeTimes = b.channels[c].DischargeTimes

MainRunning == main_pc # "exited"

\* What the operations of the main thread read and write: the viewer, the
\* outcome of the last operation, the files, the position of the main
\* thread, the frame of load_viewer_file and the bindings of sys.
Core == <<self, last, disk, saved, main_pc, frame, sys>>

\* C8: the update check is fire-and-forget. The main thread always has a
\* next step of its own whatever the update thread is doing (import, CLI
\* and GUI never wait for it); the check never ends in a raised exception;
\* and no step of the update thread changes the viewer, the files, the
\* outcome of an operation, the main thread's position or the stream
\* bindings, so every operation gives what it gives without the thread.
C8_FireAndForget ==
    /\ [](MainRunning => ENABLED MainNext)
    /\ [](updater.pc # "raised")
    /\ [][UpdaterNext => UNCHANGED Core]_vars
    /\ [](main_pc # "loading" => sys = RealStreams)

\* The viewer loaded a recording between two lines of the banner: one line
\* reached the terminal, the load went through, and the check is still
\* printing.
C8_Witness ==
    /\ updater.pc = "printing"
    /\ updater.printed = 2
    /\ terminal = 1
    /\ main_pc = "gui"
    /\ last.op = "load_viewer_file" /\ last.cause = ""
    /\ self.selected_channel = <<1, 2>>


\* The ways a load fails: no path, no such file, load_processed_data raising.
FailedLoadCauses == {"no_file_selected", "not_found"} \cup LoadErrorTypes

\* C11: a load_viewer_file that fails (empty path, missing file, or
\* load_processed_data raising) leaves viewer_data, all_channels,
\* selected_channel, the listbox and every other viewer field as they were
\* before the call, and ends in an error dialog rather than in an exception.
C11_FailedLoadChangesNothing ==
    [][(last'.op = "load_viewer_file" /\ last'.cause # "") =>
          /\ last'.cause \in FailedLoadCauses
          /\ self'.viewer_data = self.viewer_data
          /\ self'.all_channels = self.all_channels
          /\ self'.selected_channel = self.selected_channel
          /\ self'.channel_listbox = self.channel_listbox
          /\ self' = self
          /\ last'.dialog # None
          /\ last'.dialog[1] = "showerror"]_vars

\* A load failed on a corrupt file while a recording of three channels was
\* loaded, listed and selected: the recording is still there.
C11_Witness ==
    /\ last.op = "load_viewer_file"
    /\ last.cause = "CorruptFileError"
    /\ self.viewer_data # None
    /\ self.all_channels = <<<<1, 2>>, <<1, 3>>, <<2, 1>>>>
    /\ self.channel_listbox # <<>>
    /\ self.selected_channel = <<1, 3>>


\* C12: process_file has no lasting effect on the process button or on the
\* standard streams. The button is disabled exactly while process_file is
\* between its validation and its return; the streams are bound to the
\* capturing objects only during the two redirected calls; a return after a
\* failed check changes neither; and every return from the try statement
\* (process_and_store raised, save_processed_data raised, success) leaves
\* the button enabled and the streams as they were at the call.
C12_ButtonAndStreamsRestored ==
    /\ [](self.process_button = "disabled" <=> main_pc \in InProcess)
    /\ [](sys = Captured <=> main_pc \in {"processing", "saving"})
    /\ [][(main_pc = "gui" /\ main_pc' = "gui" /\ last'.op = "process_file") =>
             (sys' = sys /\ self'.process_button = "normal")]_vars
    /\ [][(main_pc \in InProcess /\ main_pc' = "gui") =>
             /\ last'.op = "process_file"
             /\ sys' = frame.streams_at_call
             /\ self'.process_button = "normal"]_vars

\* process_file returned after save_processed_data raised, in a process
\* whose streams the launcher had redirected, with a recording loaded in the
\* viewer while the file was being processed.
C12_Witness ==
    /\ main_pc = "gui"
    /\ last.op = "process_file"
    /\ last.cause = "IOWriteError"
    /\ self.process_button = "normal"
    /\ sys = [stdout |-> "logfile", stderr |-> "logfile"]
    /\ self.viewer_data # None


\* The call sequence of a run in which both collaborators were called.
BothCalled == <<"process_and_store", "save_processed_data">>

\* save_processed_data completed for the recording process_and_store returned.
SaveCompleted(run) ==
    ~save_processed_data(run.process_result.value[1], run.writable, "").raised

\* C13: after a run of cli_mode, the return value is 0 exactly when
\* process_and_store and then save_processed_data were called, in that
\* order, and neither raised; save_processed_data is called only after
\* process_and_store returned normally, and each at most once; without the
\* C++ extensions neither is called; every failure gives return value 1.
C13_ReturnCodes ==
    (main_pc = "exited" /\ last.op = "cli_mode" /\ frame # None) =>
        /\ last.arg \in {0, 1}
        /\ last.arg = 0 <=>
              /\ frame.cpp_available
              /\ ~frame.process_result.raised
              /\ frame.calls = BothCalled
              /\ SaveCompleted(frame)
        /\ frame.calls \in {<<>>, <<"process_and_store">>, BothCalled}
        /\ frame.calls = BothCalled => ~frame.process_result.raised
        /\ ~frame.cpp_available => frame.calls = <<>>
        /\ frame.cpp_available => frame.calls # <<>>
        /\ last.arg = 0 => disk # [f \in Filenames |-> None]

\* A run returned 1 because save_processed_data raised after
\* process_and_store had returned a recording; an earlier run had returned 0.
C13_Witness ==
    /\ main_pc = "exited"
    /\ last.op = "cli_mode"
    /\ last.arg = 1
    /\ last.cause = "IOWriteError"
    /\ frame.calls = BothCalled
    /\ \E f \in Filenames : saved[f] # None

=============================================================================
